---- MODULE Spec2Model ----
(***************************************************************************)
(* The training / validation control loop of train.py: Session's           *)
(* checkpoint save and load, and run_train_val's loop with its periodic    *)
(* rolling checkpoint, image snapshot, validation pass and epoch-tagged    *)
(* checkpoint.  The process can be stopped at any point and started again  *)
(* on the files it left behind.                                            *)
(***************************************************************************)
EXTENDS Integers, Sequences, FiniteSets, TLC

(* ---- bounds of the model ---- *)
MaxRuns == 2
MaxTotalStep == 20
MaxOneEpoch == 2
MaxTrainLen == 2
MaxValLen == 2
MaxPixels == 2

(* ---- constants of the program ---- *)
LatestDiv == 16
ValEpochs == 20
CkptEpochs == 10

(* settings.save_steps: below 16, exactly 16, and a multiple above *)
SaveStepsChoices == {1, 8, 15, 16, 32}
(* settings.total_step, settings.one_epoch *)
TotalStepChoices == {0, MaxTotalStep}
OneEpochChoices == {1, MaxOneEpoch}
(* batches per pass of the train loader (drop_last) and of the test loader *)
TrainLenChoices == {0, 1, MaxTrainLen}
ValLenChoices == {0, MaxValLen}

VARIABLES
    total_step, save_steps, one_epoch,  \* the settings module
    train_len, val_len,                 \* batches the train / test loaders yield
    pc,                                 \* position of the process in run_train_val
    ckp_name_net,                       \* argument of run_train_val
    step, net, net_training, opt_net, sche_last_epoch,   \* the Session
    dt_train, batch_t,                  \* train iterator: batches consumed; the batch in hand
    acc, val_i,                         \* metric accumulators; position in the validation loop
    files, val_log, images,             \* model_dir, ../log_test/val.txt, log_dir jpgs
    runs,                               \* how many times the process was started
    run, iter,                          \* history: of this run, of this iteration
    saved_sche,                         \* history: schedule position when a file was written
    saved_resumes,                      \* history: resumes behind the parameters of a file
    img1, img2,                         \* the arguments of a call of PSNR
    ret12, ret21                        \* what PSNR(img1, img2) and PSNR(img2, img1) returned

settings == <<total_step, save_steps, one_epoch, train_len, val_len>>
session == <<step, net, net_training, opt_net, sche_last_epoch>>
disk == <<files, val_log, images, saved_sche, saved_resumes>>
psnr_call == <<img1, img2, ret12, ret21>>
vars == <<total_step, save_steps, one_epoch, train_len, val_len, pc, ckp_name_net,
          step, net, net_training, opt_net, sche_last_epoch, dt_train, batch_t,
          acc, val_i, files, val_log, images, runs, run, iter, saved_sche,
          saved_resumes,
          img1, img2, ret12, ret21>>

(* ---- names of checkpoint files ---- *)
LatestNet == [kind |-> "latest_net", tag |-> 0]
EpochNet(e) == [kind |-> "net_epoch", tag |-> e]

(* int(a / b) for a >= 0, b > 0 *)
IntDiv(a, b) == a \div b

Max(a, b) == IF a >= b THEN a ELSE b

NoFiles == [n \in {} |-> 0]
ZeroAcc == [loss_all |-> 0, ssim1_all |-> 0, psnr1_all |-> 0, ssim2_all |-> 0,
            psnr2_all |-> 0, ssim4_all |-> 0, psnr4_all |-> 0, num_all |-> 0]
(* history of the iteration in progress: the schedule position, the number *)
(* of updates in the parameters and the length of val.txt when it began,   *)
(* and the files it has written                                            *)
NoIter == [sche0 |-> 0, net0 |-> 0, log0 |-> 0, latest |-> 0, image |-> 0, epoch |-> 0]
(* history of the run: the step it started from, the train steps it has    *)
(* executed and the step of the last one, whether a checkpoint was loaded, *)
(* the resumes behind the parameters                                       *)
NoRun == [s0 |-> 0, trains |-> 0, last |-> -1, loaded |-> FALSE, resumes |-> 0]

(* The memory of a process that is not running. *)
NoProcess ==
    /\ ckp_name_net' = LatestNet
    /\ step' = 0
    /\ net' = <<>>
    /\ net_training' = TRUE
    /\ opt_net' = 0
    /\ sche_last_epoch' = 0
    /\ dt_train' = 0
    /\ batch_t' = 0
    /\ acc' = ZeroAcc
    /\ val_i' = 0
    /\ run' = NoRun
    /\ iter' = NoIter

(* no call of PSNR is in progress *)
NoRet == [kind |-> "none"]
NoCall ==
    /\ img1 = <<>>
    /\ img2 = <<>>
    /\ ret12 = NoRet
    /\ ret21 = NoRet

(* before the first start of the process *)
ProcessOff ==
    /\ pc = "off"
    /\ ckp_name_net = LatestNet
    /\ step = 0
    /\ net = <<>>
    /\ net_training = TRUE
    /\ opt_net = 0
    /\ sche_last_epoch = 0
    /\ dt_train = 0
    /\ batch_t = 0
    /\ acc = ZeroAcc
    /\ val_i = 0
    /\ files = NoFiles
    /\ val_log = <<>>
    /\ images = {}
    /\ runs = 0
    /\ run = NoRun
    /\ iter = NoIter
    /\ saved_sche = NoFiles
    /\ saved_resumes = NoFiles

Init ==
    /\ total_step \in TotalStepChoices
    /\ save_steps \in SaveStepsChoices
    /\ one_epoch \in OneEpochChoices
    /\ train_len \in TrainLenChoices
    /\ val_len \in ValLenChoices
    /\ ProcessOff
    /\ NoCall

(* ---- Session.save_checkpoints_net ---- *)
CheckpointObj == [net |-> net, clock_net |-> step, opt_net |-> opt_net]

save_checkpoints_net(name) ==
    /\ files' = (name :> CheckpointObj) @@ files
    /\ saved_sche' = (name :> sche_last_epoch) @@ saved_sche
    /\ saved_resumes' = (name :> run.resumes) @@ saved_resumes

(* ---- the periodic tests of the loop body ---- *)
(* the period of the rolling checkpoint rounded up *)
LatestEveryRoundedUp == IntDiv(save_steps + LatestDiv - 1, LatestDiv)

(* int(sess.save_steps / 16) *)
LatestEvery == IntDiv(save_steps, LatestDiv)
(* the rolling test with save_steps undivided *)
LatestDueNoDiv == step % save_steps = 0
LatestDue == step % LatestEvery = 0
ImageDue == step % save_steps = 0
(* the validation test at the cadence of the epoch checkpoint *)
ValDueTen == step % (one_epoch * CkptEpochs) = 0
ValDue == step % (one_epoch * ValEpochs) = 0
EpochDue == step % (one_epoch * CkptEpochs) = 0
EpochOf(s) == IntDiv(s, one_epoch)

(* what inf_batch_test returns for validation sample i under the current   *)
(* parameters: seven numbers that depend on the parameters and the sample  *)
EvalMetric(k, i) == (Len(net) + i + k) % 3

Running == {"load", "setup", "while", "sche_step", "net_train", "next_batch",
            "inf_batch", "save_latest", "save_image", "val_test", "val_loop",
            "save_epoch", "step_incr"}

(* ---- process start: Session.__init__ ---- *)
(* The settings module is read when the process starts; total_step may     *)
(* have been edited since the files on disk were written.                  *)
SessionInit ==
    /\ pc = "off"
    /\ runs < MaxRuns
    /\ runs' = runs + 1
    /\ \E name \in {LatestNet} \cup DOMAIN files : ckp_name_net' = name
    /\ total_step' \in TotalStepChoices
    /\ step' = 0
    /\ net' = <<>>
    /\ net_training' = TRUE
    /\ opt_net' = 0
    /\ sche_last_epoch' = 0
    /\ pc' = "load"
    /\ UNCHANGED <<save_steps, one_epoch, train_len, val_len, dt_train, batch_t,
                   acc, val_i, run, iter>>
    /\ UNCHANGED disk
    /\ UNCHANGED psnr_call

(* ---- Session.load_checkpoints_net ---- *)
(* torch.load raises FileNotFoundError, were it not caught *)
LoadMissingRaises ==
    /\ pc' = "crashed"
    /\ UNCHANGED session

(* torch.load raises FileNotFoundError: logged, return *)
LoadMissing ==
    /\ pc' = "setup"
    /\ UNCHANGED session

(* a load that puts the schedule one past the stored clock *)
LoadFoundScheAhead(obj) ==
    /\ net' = obj.net
    /\ opt_net' = obj.opt_net
    /\ step' = obj.clock_net
    /\ sche_last_epoch' = step' + 1
    /\ UNCHANGED net_training
    /\ pc' = "setup"

(* a load that sets the step counter one past the stored clock *)
LoadFoundNextStep(obj) ==
    /\ net' = obj.net
    /\ opt_net' = obj.opt_net
    /\ step' = obj.clock_net + 1
    /\ sche_last_epoch' = step'
    /\ UNCHANGED net_training
    /\ pc' = "setup"

(* the record is applied to the session *)
LoadFound(obj) ==
    /\ net' = obj.net
    /\ opt_net' = obj.opt_net
    /\ step' = obj.clock_net
    /\ sche_last_epoch' = step'
    /\ UNCHANGED net_training
    /\ pc' = "setup"

load_checkpoints_net ==
    /\ pc = "load"
    /\ IF ckp_name_net \notin DOMAIN files
         THEN LoadMissing
         ELSE LoadFound(files[ckp_name_net])
    /\ run' = [s0 |-> step', trains |-> 0, last |-> -1,
               loaded |-> ckp_name_net \in DOMAIN files,
               resumes |-> IF ckp_name_net \in DOMAIN files
                             THEN saved_resumes[ckp_name_net] + 1 ELSE 0]
    /\ UNCHANGED <<settings, ckp_name_net, dt_train, batch_t, acc, val_i, runs, iter>>
    /\ UNCHANGED disk
    /\ UNCHANGED psnr_call

(* ---- run_train_val: tensorboard, first train iterator ---- *)
Setup ==
    /\ pc = "setup"
    /\ dt_train' = 0
    /\ pc' = "while"
    /\ UNCHANGED <<settings, ckp_name_net, batch_t, acc, val_i, runs, run, iter>>
    /\ UNCHANGED session
    /\ UNCHANGED disk
    /\ UNCHANGED psnr_call

(* while sess.step < settings.total_step+1 *)
(* the loop test without the + 1 *)
LoopCondShort == step < total_step

LoopCond == step < total_step + 1

While ==
    /\ pc = "while"
    /\ pc' = IF LoopCond THEN "sche_step" ELSE "done"
    /\ iter' = [sche0 |-> sche_last_epoch, net0 |-> Len(net), log0 |-> Len(val_log),
                latest |-> 0, image |-> 0, epoch |-> 0]
    /\ UNCHANGED <<settings, ckp_name_net, dt_train, batch_t, acc, val_i, runs, run>>
    /\ UNCHANGED session
    /\ UNCHANGED disk
    /\ UNCHANGED psnr_call

(* the schedule stepped twice in an iteration *)
ScheAdvanceTwice == sche_last_epoch + 2

(* MultiStepLR.step(): last_epoch + 1 *)
ScheAdvance == sche_last_epoch + 1

(* sess.sche_net.step() *)
ScheStep ==
    /\ pc = "sche_step"
    /\ sche_last_epoch' = ScheAdvance
    /\ pc' = "net_train"
    /\ UNCHANGED <<settings, ckp_name_net, dt_train, batch_t, acc, val_i, runs, run, iter>>
    /\ UNCHANGED <<step, net, net_training, opt_net>>
    /\ UNCHANGED disk
    /\ UNCHANGED psnr_call

(* an iteration that does not call sess.net.train() *)
NetTrainSkipped ==
    /\ pc = "net_train"
    /\ pc' = "next_batch"
    /\ UNCHANGED <<settings, ckp_name_net, dt_train, batch_t, acc, val_i, runs, run, iter>>
    /\ UNCHANGED session
    /\ UNCHANGED disk
    /\ UNCHANGED psnr_call

(* sess.net.train() *)
NetTrain ==
    /\ pc = "net_train"
    /\ net_training' = TRUE
    /\ pc' = "next_batch"
    /\ UNCHANGED <<settings, ckp_name_net, dt_train, batch_t, acc, val_i, runs, run, iter>>
    /\ UNCHANGED <<step, net, opt_net, sche_last_epoch>>
    /\ UNCHANGED disk
    /\ UNCHANGED psnr_call

(* next(dt_train) with no handler for StopIteration *)
NextBatchNoRestart ==
    /\ pc = "next_batch"
    /\ IF dt_train < train_len
         THEN /\ batch_t' = dt_train + 1
              /\ dt_train' = dt_train + 1
              /\ pc' = "inf_batch"
         ELSE /\ pc' = "crashed"
              /\ UNCHANGED <<batch_t, dt_train>>
    /\ UNCHANGED <<settings, ckp_name_net, acc, val_i, runs, run, iter>>
    /\ UNCHANGED session
    /\ UNCHANGED disk
    /\ UNCHANGED psnr_call

(* next(dt_train), with the iterator re-created on StopIteration; a loader *)
(* of no batch raises StopIteration again, which nothing catches           *)
NextBatch ==
    /\ pc = "next_batch"
    /\ IF dt_train < train_len
         THEN /\ batch_t' = dt_train + 1
              /\ dt_train' = dt_train + 1
              /\ pc' = "inf_batch"
         ELSE IF train_len > 0
                THEN /\ batch_t' = 1
                     /\ dt_train' = 1
                     /\ pc' = "inf_batch"
                ELSE /\ pc' = "crashed"
                     /\ UNCHANGED <<batch_t, dt_train>>
    /\ UNCHANGED <<settings, ckp_name_net, acc, val_i, runs, run, iter>>
    /\ UNCHANGED session
    /\ UNCHANGED disk
    /\ UNCHANGED psnr_call

(* sess.inf_batch('train', batch_t): one optimizer update *)
InfBatch ==
    /\ pc = "inf_batch"
    /\ net' = Append(net, [step |-> step, sche |-> sche_last_epoch, batch |-> batch_t])
    /\ opt_net' = opt_net + 1
    /\ run' = [run EXCEPT !.trains = @ + 1, !.last = step]
    /\ pc' = "save_latest"
    /\ UNCHANGED <<settings, ckp_name_net, dt_train, batch_t, acc, val_i, runs, iter>>
    /\ UNCHANGED <<step, net_training, sche_last_epoch>>
    /\ UNCHANGED disk
    /\ UNCHANGED psnr_call

(* if sess.step % int(sess.save_steps / 16) == 0: save 'latest_net' *)
SaveLatest ==
    /\ pc = "save_latest"
    /\ IF LatestEvery = 0
         THEN /\ pc' = "crashed"
              /\ UNCHANGED <<files, saved_sche, saved_resumes, iter>>
         ELSE /\ pc' = "save_image"
              /\ IF LatestDue
                   THEN /\ save_checkpoints_net(LatestNet)
                        /\ iter' = [iter EXCEPT !.latest = @ + 1]
                   ELSE UNCHANGED <<files, saved_sche, saved_resumes, iter>>
    /\ UNCHANGED <<settings, ckp_name_net, dt_train, batch_t, acc, val_i, runs, run>>
    /\ UNCHANGED session
    /\ UNCHANGED <<val_log, images>>
    /\ UNCHANGED psnr_call

(* if sess.step % sess.save_steps == 0: sess.save_image *)
SaveImage ==
    /\ pc = "save_image"
    /\ IF ImageDue
         THEN /\ images' = images \cup {step}
              /\ iter' = [iter EXCEPT !.image = @ + 1]
         ELSE UNCHANGED <<images, iter>>
    /\ pc' = "val_test"
    /\ UNCHANGED <<settings, ckp_name_net, dt_train, batch_t, acc, val_i, runs, run>>
    /\ UNCHANGED session
    /\ UNCHANGED <<files, val_log, saved_sche, saved_resumes>>
    /\ UNCHANGED psnr_call

(* accumulators that keep what the previous pass left in them *)
CarriedAcc == acc

(* ssim1_all = 0 ... num_all = 0, at every iteration *)
FreshAcc == ZeroAcc

(* the accumulators are zeroed; if validation is due: get_test_dataloader, *)
(* sess.net.eval()                                                         *)
ValTest ==
    /\ pc = "val_test"
    /\ acc' = FreshAcc
    /\ val_i' = 0
    /\ IF ValDue
         THEN /\ net_training' = FALSE
              /\ pc' = "val_loop"
         ELSE /\ UNCHANGED net_training
              /\ pc' = "save_epoch"
    /\ UNCHANGED <<settings, ckp_name_net, dt_train, batch_t, runs, run, iter>>
    /\ UNCHANGED <<step, net, opt_net, sche_last_epoch>>
    /\ UNCHANGED disk
    /\ UNCHANGED psnr_call

(* an evaluation step that also applied an optimizer update *)
inf_batch_test_updates ==
    /\ net' = Append(net, [step |-> step, sche |-> sche_last_epoch, batch |-> val_i + 1])
    /\ opt_net' = opt_net + 1
    /\ UNCHANGED <<step, net_training, sche_last_epoch>>

(* Session.inf_batch_test: a forward pass under no_grad and the metrics;   *)
(* nothing of the session is assigned                                      *)
inf_batch_test == UNCHANGED session

(* one batch of the validation loop: inf_batch_test and the running sums *)
ValBatch ==
    /\ pc = "val_loop"
    /\ val_i < val_len
    /\ val_i' = val_i + 1
    /\ acc' = [loss_all  |-> acc.loss_all  + EvalMetric(0, val_i + 1),
               ssim1_all |-> acc.ssim1_all + EvalMetric(1, val_i + 1),
               psnr1_all |-> acc.psnr1_all + EvalMetric(2, val_i + 1),
               ssim2_all |-> acc.ssim2_all + EvalMetric(3, val_i + 1),
               psnr2_all |-> acc.psnr2_all + EvalMetric(4, val_i + 1),
               ssim4_all |-> acc.ssim4_all + EvalMetric(5, val_i + 1),
               psnr4_all |-> acc.psnr4_all + EvalMetric(6, val_i + 1),
               num_all   |-> acc.num_all + 1]
    /\ pc' = "val_loop"
    /\ UNCHANGED <<settings, ckp_name_net, dt_train, batch_t, runs, run, iter>>
    /\ inf_batch_test
    /\ UNCHANGED disk
    /\ UNCHANGED psnr_call

(* an average as the code computes it: sum / num_all *)
Avg(sum, n) == [sum |-> sum, over |-> n]

LogRecord ==
    [step  |-> step,
     epoch |-> EpochOf(step),
     loss  |-> Avg(acc.loss_all, acc.num_all),
     ssim1 |-> Avg(acc.ssim1_all, acc.num_all),
     psnr1 |-> Avg(acc.psnr1_all, acc.num_all),
     ssim2 |-> Avg(acc.ssim2_all, acc.num_all),
     psnr2 |-> Avg(acc.psnr2_all, acc.num_all),
     ssim4 |-> Avg(acc.ssim4_all, acc.num_all),
     psnr4 |-> Avg(acc.psnr4_all, acc.num_all)]

(* after the validation loop: the averages (a division by num_all) and the *)
(* record appended to val.txt                                              *)
ValEnd ==
    /\ pc = "val_loop"
    /\ val_i >= val_len
    /\ IF acc.num_all = 0
         THEN /\ pc' = "crashed"
              /\ UNCHANGED val_log
         ELSE /\ val_log' = Append(val_log, LogRecord)
              /\ pc' = "save_epoch"
    /\ UNCHANGED <<settings, ckp_name_net, dt_train, batch_t, acc, val_i, runs, run, iter>>
    /\ UNCHANGED session
    /\ UNCHANGED <<files, images, saved_sche, saved_resumes>>
    /\ UNCHANGED psnr_call

(* if sess.step % (settings.one_epoch*10) == 0: save 'net_%d_epoch' *)
SaveEpoch ==
    /\ pc = "save_epoch"
    /\ IF EpochDue
         THEN /\ save_checkpoints_net(EpochNet(EpochOf(step)))
              /\ iter' = [iter EXCEPT !.epoch = @ + 1]
         ELSE UNCHANGED <<files, saved_sche, saved_resumes, iter>>
    /\ pc' = "step_incr"
    /\ UNCHANGED <<settings, ckp_name_net, dt_train, batch_t, acc, val_i, runs, run>>
    /\ UNCHANGED session
    /\ UNCHANGED <<val_log, images>>
    /\ UNCHANGED psnr_call

(* sess.step += 1 *)
StepIncr ==
    /\ pc = "step_incr"
    /\ step' = step + 1
    /\ pc' = "while"
    /\ UNCHANGED <<settings, ckp_name_net, dt_train, batch_t, acc, val_i, runs, run, iter>>
    /\ UNCHANGED <<net, net_training, opt_net, sche_last_epoch>>
    /\ UNCHANGED disk
    /\ UNCHANGED psnr_call

(* The process ends: it returned, it raised, or it was stopped from        *)
(* outside.  Its memory is gone; the files stay.                           *)
ProcessEnd ==
    /\ pc # "off"
    /\ pc' = "off"
    /\ NoProcess
    /\ UNCHANGED <<settings, runs>>
    /\ UNCHANGED disk
    /\ UNCHANGED psnr_call

Step ==
    \/ load_checkpoints_net
    \/ Setup
    \/ While
    \/ ScheStep
    \/ NetTrain
    \/ NextBatch
    \/ InfBatch
    \/ SaveLatest
    \/ SaveImage
    \/ ValTest
    \/ ValBatch
    \/ ValEnd
    \/ SaveEpoch
    \/ StepIncr

Next ==
    \/ SessionInit
    \/ Step
    \/ ProcessEnd

Spec == Init /\ [][Next]_vars

(* the process runs on whenever it can *)
FairSpec == Spec /\ WF_vars(Step)

(***************************************************************************)
(* PSNR(img1, img2)                                                        *)
(* An image is an array of numbers, here a sequence of integer pixels; the *)
(* two arguments of a call have the same shape.                            *)
(***************************************************************************)
ClipLow == 0
ClipHigh == 255
Norm == 255
Sentinel == 100
PIXEL_MAX == 1

PixelChoices == {-3, 0, 128, 255, 300}
Images(n) == [1..n -> PixelChoices]

(* np.clip(x, 0, 255) of one element *)
Clip(x) == IF x < ClipLow THEN ClipLow ELSE IF x > ClipHigh THEN ClipHigh ELSE x

RECURSIVE SumSq(_, _, _)
SumSq(a, b, n) ==
    IF n = 0 THEN 0
    ELSE SumSq(a, b, n - 1) + (a[n] - b[n]) * (a[n] - b[n])

(* np.mean((img1 / 255. - img2 / 255.) ** 2), as the fraction num / den *)
Mse(a, b) == [num |-> SumSq(a, b, Len(a)), den |-> Len(a) * Norm * Norm]

(* a test mse == 0 that never succeeds *)
MseNeverZero(mse) == FALSE

(* if mse == 0 *)
MseIsZero(mse) == mse.num = 0

(* 20 * math.log10(PIXEL_MAX / math.sqrt(mse)): a number that is a one to   *)
(* one function of mse, kept as its argument; the division raises when the *)
(* root is zero                                                            *)
LogBranch(mse) ==
    IF mse.num = 0
      THEN [kind |-> "ZeroDivisionError"]
      ELSE [kind |-> "log", peak |-> PIXEL_MAX, mse |-> mse]

(* a PSNR that clips its first argument only *)
PSNRClipFirst(a, b) ==
    LET c1 == [i \in 1..Len(a) |-> Clip(a[i])]
        mse == Mse(c1, b)
    IN  IF MseIsZero(mse)
          THEN [kind |-> "sentinel", value |-> Sentinel]
          ELSE LogBranch(mse)

PSNR(a, b) ==
    LET c1 == [i \in 1..Len(a) |-> Clip(a[i])]
        c2 == [i \in 1..Len(b) |-> Clip(b[i])]
        mse == Mse(c1, c2)
    IN  IF MseIsZero(mse)
          THEN [kind |-> "sentinel", value |-> Sentinel]
          ELSE LogBranch(mse)

(* the process is off; two images of one shape are the arguments *)
PsnrInit ==
    /\ total_step = 0
    /\ save_steps = LatestDiv
    /\ one_epoch = 1
    /\ train_len = 0
    /\ val_len = 0
    /\ ProcessOff
    /\ \E n \in 1..MaxPixels :
          /\ img1 \in Images(n)
          /\ img2 \in Images(n)
    /\ ret12 = NoRet
    /\ ret21 = NoRet

CallPSNR ==
    /\ ret12 = NoRet
    /\ ret12' = PSNR(img1, img2)
    /\ UNCHANGED <<img1, img2, ret21>>
    /\ UNCHANGED <<settings, pc, ckp_name_net, dt_train, batch_t, acc, val_i, runs, run, iter>>
    /\ UNCHANGED session
    /\ UNCHANGED disk

CallPSNRSwapped ==
    /\ ret21 = NoRet
    /\ ret21' = PSNR(img2, img1)
    /\ UNCHANGED <<img1, img2, ret12>>
    /\ UNCHANGED <<settings, pc, ckp_name_net, dt_train, batch_t, acc, val_i, runs, run, iter>>
    /\ UNCHANGED session
    /\ UNCHANGED disk

PsnrNext ==
    \/ CallPSNR
    \/ CallPSNRSwapped

PsnrSpec == PsnrInit /\ [][PsnrNext]_vars

(***************************************************************************)
(* Claims                                                                  *)
(***************************************************************************)

(* the updates of a run from step 0 to step t that was never interrupted:  *)
(* one per step value 0..t, the schedule at step + 1                       *)
Uninterrupted(t) == [i \in 1..(t + 1) |-> [step |-> i - 1, sche |-> i]]

(* the step value and schedule position of each update in the parameters *)
Trajectory(n) == [i \in 1..Len(n) |-> [step |-> n[i].step, sche |-> n[i].sche]]

(* C1: a run resumed from a checkpoint the loop wrote and continued to     *)
(* total_step has applied the same optimizer updates, at the same step     *)
(* values and schedule positions, as an uninterrupted run from step 0 to   *)
(* total_step.                                                             *)
C1_ResumeSameTrajectory ==
    (pc = "done" /\ run.loaded /\ run.s0 <= total_step)
        => Trajectory(net) = Uninterrupted(total_step)

(* C2: right after load_checkpoints_net(name) of a file the loop wrote,    *)
(* the step counter, the parameters, the optimizer state and the schedule  *)
(* position are what they were at the moment that file was saved.          *)
C2_RoundTripRestoresAll ==
    (pc = "setup" /\ run.loaded)
        => /\ step = files[ckp_name_net].clock_net
           /\ net = files[ckp_name_net].net
           /\ opt_net = files[ckp_name_net].opt_net
           /\ sche_last_epoch = saved_sche[ckp_name_net]

(* C3: load_checkpoints_net on a name with no file does not fail and       *)
(* changes nothing (step 0, no update in the parameters or the optimizer,  *)
(* schedule position 0), and the loop is then entered at step 0.           *)
C3_MissingCheckpointColdStart ==
    [][ /\ (pc = "load" /\ ckp_name_net \notin DOMAIN files /\ pc' # "off")
            => /\ pc' = "setup"
               /\ step' = 0 /\ net' = <<>> /\ opt_net' = 0 /\ sche_last_epoch' = 0
               /\ session' = session
        /\ (pc = "while" /\ ~run.loaded /\ run.trains = 0 /\ pc' # "off")
            => /\ pc' = "sche_step"
               /\ step' = 0 ]_vars

C3_Witness ==
    /\ pc = "sche_step"
    /\ ~run.loaded
    /\ run.trains = 0
    /\ step = 0
    /\ sche_last_epoch = 0

(* how the loop leaves: the step it ends on and the train steps it ran *)
ExitState ==
    /\ step = Max(run.s0, total_step + 1)
    /\ run.trains = Max(0, total_step + 1 - run.s0)
    /\ (run.trains > 0 => run.last = total_step)

NonEmptySets == train_len >= 1 /\ val_len >= 1

(* C4 as stated: with non-empty training and validation sets the loop      *)
(* exits, with step = max(s0, total_step + 1), after exactly               *)
(* max(0, total_step + 1 - s0) train steps, the last at step total_step.   *)
C4_LoopExitsAnySettings ==
    (NonEmptySets /\ pc \in {"done", "crashed"}) => (pc = "done" /\ ExitState)

(* C4 as amended: with non-empty training and validation sets and          *)
(* save_steps >= 16 the loop never aborts, a running process reaches the   *)
(* end of the loop unless it is stopped from outside, and at the end       *)
(* step = max(s0, total_step + 1) after exactly max(0, total_step + 1 - s0)*)
(* train steps, the last at step total_step.                               *)
C4_LoopExits ==
    /\ []((NonEmptySets /\ save_steps >= 16)
            => (pc # "crashed" /\ (pc = "done" => ExitState)))
    /\ []((NonEmptySets /\ save_steps >= 16 /\ pc \in Running)
            => <>(pc \in {"done", "off"}))

C4_Witness ==
    /\ pc = "done"
    /\ NonEmptySets
    /\ run.loaded
    /\ run.s0 > 0
    /\ run.trains > 1
    /\ run.last = total_step

InLoop == (Running \ {"load", "setup"}) \cup {"done", "crashed"}

(* C5: inside the loop the step counter never decreases and changes only   *)
(* by the +1 that ends an iteration; when it does, the iteration has       *)
(* advanced the schedule exactly once and applied exactly one update.      *)
C5_StepMonotonic ==
    [][ (pc \in InLoop /\ pc' \in InLoop)
          => /\ step' >= step
             /\ (step' # step) => pc = "step_incr"
             /\ (pc = "step_incr")
                  => /\ step' = step + 1
                     /\ sche_last_epoch = iter.sche0 + 1
                     /\ Len(net) = iter.net0 + 1 ]_vars

C5_Witness ==
    /\ pc = "while"
    /\ step = 3
    /\ run.trains = 3
    /\ iter.net0 = 2

(* C6: an iteration writes 'latest_net' once if its step is a multiple of  *)
(* floor(save_steps/16) and not at all otherwise, and the record written   *)
(* holds clock == step; with save_steps == 16 every iteration writes it,   *)
(* so after a completed iteration at step s the stored clock is s.         *)
C6_RollingCheckpointCadence ==
    /\ (pc = "step_incr")
         => /\ iter.latest = (IF step % (save_steps \div 16) = 0 THEN 1 ELSE 0)
            /\ (iter.latest = 1)
                 => /\ LatestNet \in DOMAIN files
                    /\ files[LatestNet] = [net |-> net, clock_net |-> step,
                                           opt_net |-> opt_net]
    /\ (save_steps = 16 /\ pc = "step_incr") => iter.latest = 1
    /\ (save_steps = 16 /\ pc = "while" /\ run.trains > 0)
         => files[LatestNet].clock_net = step - 1

C6_Witness ==
    /\ pc = "step_incr"
    /\ save_steps = 32
    /\ step = 2
    /\ iter.latest = 1
    /\ files[LatestNet].clock_net = 2

(* C7: once net_<e>_epoch exists, no step of any run, and no stop and      *)
(* resume, writes it again or changes its content.                         *)
C7_EpochSnapshotsPermanent ==
    [][ \A n \in DOMAIN files :
          (n.kind = "net_epoch")
            => (n \in DOMAIN files' /\ files'[n] = files[n]) ]_vars

(* C8: val.txt only grows, by one record at a time; an iteration appends   *)
(* exactly one record if its step is a multiple of one_epoch*20 and none   *)
(* otherwise; the record carries the step and floor(step/one_epoch); so    *)
(* step total_step is validated only if it is such a multiple.             *)
C8_ValidationLog ==
    /\ [][ /\ Len(val_log') >= Len(val_log)
           /\ SubSeq(val_log', 1, Len(val_log)) = val_log
           /\ (val_log' # val_log)
                => /\ Len(val_log') = Len(val_log) + 1
                   /\ val_log'[Len(val_log')].step = step
                   /\ val_log'[Len(val_log')].epoch = step \div one_epoch
                   /\ step % (one_epoch * 20) = 0 ]_vars
    /\ []((pc = "step_incr")
            => Len(val_log) = iter.log0
                 + (IF step % (one_epoch * 20) = 0 THEN 1 ELSE 0))
    /\ []((pc = "step_incr" /\ step = total_step /\ Len(val_log) > iter.log0)
            => total_step % (one_epoch * 20) = 0)

C8_Witness ==
    /\ pc = "step_incr"
    /\ step = 20
    /\ Len(val_log) = 2
    /\ val_log[1].step = 0
    /\ val_log[2].step = 20
    /\ val_log[2].epoch = 20

(* C9: a validation pass over an empty validation set completes without a  *)
(* division error and the loop goes on.                                    *)
C9_EmptyValidationCompletes ==
    [][ (pc = "val_loop" /\ val_len = 0 /\ pc' # "off") => pc' = "save_epoch" ]_vars

(* C10 as stated: every iteration obtains a batch, whatever the length of  *)
(* the training loader, and the batches are the loader's cycled.           *)
C10_EveryIterationGetsBatch ==
    [][ (pc = "next_batch" /\ pc' # "off")
          => /\ pc' = "inf_batch"
             /\ (train_len >= 1) => batch_t' = (run.trains % train_len) + 1 ]_vars

(* C10 as amended: with a training loader of at least one batch every      *)
(* iteration obtains a batch, the k-th train step of a run gets batch      *)
(* ((k-1) mod length) + 1, and no iteration reaches its end without its    *)
(* train step.                                                             *)
C10_CyclesNonEmptyLoader ==
    [][ /\ (pc = "next_batch" /\ train_len >= 1 /\ pc' # "off")
            => /\ pc' = "inf_batch"
               /\ batch_t' = (run.trains % train_len) + 1
        /\ (pc = "step_incr" /\ train_len >= 1)
            => /\ Len(net) = iter.net0 + 1
               /\ net[Len(net)].batch = ((run.trains - 1) % train_len) + 1 ]_vars

C10_Witness ==
    /\ pc = "inf_batch"
    /\ train_len = 2
    /\ run.trains = 2
    /\ dt_train = 1
    /\ batch_t = 1

(* C11: an evaluation step, and so a validation pass of any length, leaves *)
(* the parameters, the optimizer state, the schedule position and the step *)
(* counter as they were, and with them the metrics of every sample.        *)
C11_EvaluationReadOnly ==
    /\ [][ (pc = "val_loop" /\ pc' # "off")
             => /\ net' = net
                /\ opt_net' = opt_net
                /\ sche_last_epoch' = sche_last_epoch
                /\ step' = step
                /\ \A k \in 0..6 : \A i \in 1..val_len :
                      EvalMetric(k, i)' = EvalMetric(k, i) ]_vars
    /\ []((pc = "save_epoch")
            => /\ Len(net) = iter.net0 + 1
               /\ opt_net = Len(net)
               /\ sche_last_epoch = iter.sche0 + 1)

C11_Witness ==
    /\ pc = "val_loop"
    /\ step = 20
    /\ val_i = 2
    /\ acc.num_all = 2
    /\ Len(net) = iter.net0 + 1

(* the sum over the first n validation samples of metric k *)
RECURSIVE SumMetric(_, _)
SumMetric(k, n) == IF n = 0 THEN 0 ELSE SumMetric(k, n - 1) + EvalMetric(k, n)

(* C12: the seven running sums and the sample count are zero when a pass   *)
(* starts, whatever earlier passes left, and the record logged at the end  *)
(* of a pass holds, for each metric, the sum of that pass's per-sample     *)
(* values over n, n >= 1 being the number of validation samples.           *)
C12_AccumulatorsPerPass ==
    /\ []((pc = "val_loop" /\ val_i = 0)
            => /\ acc.loss_all = 0
               /\ acc.ssim1_all = 0 /\ acc.psnr1_all = 0
               /\ acc.ssim2_all = 0 /\ acc.psnr2_all = 0
               /\ acc.ssim4_all = 0 /\ acc.psnr4_all = 0
               /\ acc.num_all = 0)
    /\ [][ (val_log' # val_log)
             => LET r == val_log'[Len(val_log')] IN
                /\ val_len >= 1
                /\ r.loss  = [sum |-> SumMetric(0, val_len), over |-> val_len]
                /\ r.ssim1 = [sum |-> SumMetric(1, val_len), over |-> val_len]
                /\ r.psnr1 = [sum |-> SumMetric(2, val_len), over |-> val_len]
                /\ r.ssim2 = [sum |-> SumMetric(3, val_len), over |-> val_len]
                /\ r.psnr2 = [sum |-> SumMetric(4, val_len), over |-> val_len]
                /\ r.ssim4 = [sum |-> SumMetric(5, val_len), over |-> val_len]
                /\ r.psnr4 = [sum |-> SumMetric(6, val_len), over |-> val_len] ]_vars

(* the second validation pass of one process has been logged *)
C12_Witness ==
    /\ pc = "save_epoch"
    /\ runs = 1
    /\ step = 20
    /\ Len(val_log) = 2
    /\ val_log[1].loss.sum > 0
    /\ val_log[2].loss.over = 2

(* the two arguments are equal element by element once clipped *)
EqualAfterClip == \A i \in 1..Len(img1) : Clip(img1[i]) = Clip(img2[i])

(* C13: PSNR(img, img) is 100 for every image; whenever the arguments are  *)
(* equal after clipping to [0,255] the mean squared error is zero and the  *)
(* sentinel 100 is returned with no logarithm and no division evaluated;   *)
(* the sentinel is returned only when the mean squared error is zero.      *)
C13_SentinelIffZeroMse ==
    /\ PSNR(img1, img1) = [kind |-> "sentinel", value |-> 100]
    /\ PSNR(img2, img2) = [kind |-> "sentinel", value |-> 100]
    /\ (ret12 # NoRet)
         => /\ EqualAfterClip => ret12 = [kind |-> "sentinel", value |-> 100]
            /\ (ret12.kind = "sentinel") <=> EqualAfterClip
            /\ (ret12.kind = "log") <=> ~EqualAfterClip
            /\ (ret12.kind = "log") => ret12.mse.num > 0

(* the sentinel came back for two different images that clip to the same *)
C13_Witness ==
    /\ ret12 = [kind |-> "sentinel", value |-> 100]
    /\ Len(img1) = 2
    /\ img1[1] < 0 /\ img2[1] = 0
    /\ img1[2] = 255 /\ img2[2] > 255

(* C14: for every pair of equally shaped images PSNR(a, b) = PSNR(b, a),   *)
(* values outside [0,255], which are clipped, included.                    *)
C14_Symmetric ==
    (ret12 # NoRet /\ ret21 # NoRet) => ret12 = ret21

(* both orders were called on images that have values on both sides of the *)
(* range, and the result is not the sentinel                               *)
C14_Witness ==
    /\ ret12 # NoRet
    /\ ret21 # NoRet
    /\ ret12.kind = "log"
    /\ Len(img1) = 2
    /\ img1[1] < 0 /\ img2[1] > 255
    /\ img1[2] > 255 /\ img2[2] = 128

(* the names whose file the step writes *)
Written == {n \in DOMAIN files' : n \notin DOMAIN files \/ files'[n] # files[n]}

(* C15: a checkpoint with clock s is written after the optimizer update of *)
(* step s and before the increment, so its parameters include the update   *)
(* of step s; a run resumed from it executes the train step of step value  *)
(* s a second time; a run whose parameters have k resumes behind them has  *)
(* applied, when it reaches total_step, k more updates than the            *)
(* total_step + 1 of an uninterrupted run.                                 *)
C15_ResumeRepeatsSavedStep ==
    /\ [][ \A n \in Written :
             /\ pc \in {"save_latest", "save_epoch"}
             /\ files'[n].clock_net = step
             /\ step' = step
             /\ Len(files'[n].net) = iter.net0 + 1
             /\ files'[n].net[Len(files'[n].net)].step = step
             /\ files'[n].opt_net = Len(files'[n].net) ]_vars
    /\ [][ (pc = "inf_batch" /\ pc' = "save_latest" /\ run.loaded /\ run.trains = 0)
             => /\ step = files[ckp_name_net].clock_net
                /\ net[Len(net)].step = step
                /\ net'[Len(net')].step = step
                /\ Len(net') = Len(files[ckp_name_net].net) + 1 ]_vars
    /\ []((pc = "done" /\ run.s0 <= total_step)
            => /\ Len(net) = total_step + 1 + run.resumes
               /\ opt_net = total_step + 1 + run.resumes)

(* a resumed run has reached total_step with one update more *)
C15_Witness ==
    /\ pc = "done"
    /\ run.loaded
    /\ run.resumes = 1
    /\ run.s0 = 10
    /\ total_step = 20
    /\ Len(net) = 22

(* C16: whenever a train step executes, the schedule position is step + 1, *)
(* the schedule having been advanced once at the top of the iteration; in  *)
(* a cold-start run and in a run resumed from a checkpoint the loop wrote. *)
C16_SchedulePositionAtTrainStep ==
    /\ []((pc = "inf_batch") => sche_last_epoch = step + 1)
    /\ []((pc = "inf_batch") => sche_last_epoch = iter.sche0 + 1)
    /\ [][ (pc = "inf_batch" /\ pc' = "save_latest")
             => net'[Len(net')] = [step |-> step, sche |-> step + 1, batch |-> batch_t] ]_vars

(* a train step of a resumed run, not the first of that run *)
C16_Witness ==
    /\ pc = "inf_batch"
    /\ run.loaded
    /\ run.s0 = 10
    /\ step = 11
    /\ sche_last_epoch = 12

(* C17 as stated: with save_steps in 1..15 the first iteration fails at    *)
(* the rolling-checkpoint test, after that iteration's optimizer update,   *)
(* with nothing written and the step counter not incremented.              *)
C17_FailsAfterUpdateAnyLoader ==
    (save_steps \in 1..15 /\ pc = "crashed")
        => /\ Len(net) = 1
           /\ run.trains = 1
           /\ step = 0
           /\ files = NoFiles /\ val_log = <<>> /\ images = {}

(* C17 as amended: with save_steps in 1..15 the period int(save_steps/16)  *)
(* is 0 and, the training loader yielding at least one batch, the first    *)
(* iteration fails at the rolling-checkpoint test: after that iteration's  *)
(* optimizer update, before any checkpoint, snapshot or log record is      *)
(* written, with the step counter not incremented; the run never persists  *)
(* a checkpoint.                                                           *)
C17_SmallSaveStepsFailsFirstIteration ==
    /\ []((save_steps \in 1..15)
            => /\ LatestEvery = 0
               /\ files = NoFiles
               /\ val_log = <<>>
               /\ images = {}
               /\ step = 0
               /\ pc \notin {"save_image", "val_test", "val_loop", "save_epoch",
                             "step_incr", "done"})
    /\ []((save_steps \in 1..15 /\ train_len >= 1 /\ pc = "crashed")
            => (Len(net) = 1 /\ opt_net = 1 /\ run.trains = 1))
    /\ [][ (save_steps \in 1..15 /\ pc = "save_latest" /\ pc' # "off")
             => /\ pc' = "crashed"
                /\ Len(net) = iter.net0 + 1
                /\ Len(net) = 1
                /\ opt_net = 1
                /\ run.trains = 1
                /\ step' = step
                /\ net' = net
                /\ files' = files /\ val_log' = val_log /\ images' = images ]_vars

(* the second start of the process failed in its first iteration as well *)
C17_Witness ==
    /\ pc = "crashed"
    /\ save_steps = 15
    /\ train_len = 1
    /\ runs = 2
    /\ Len(net) = 1
    /\ step = 0
    /\ files = NoFiles

(* C18: in the first iteration of a cold start (step 0), for every         *)
(* save_steps >= 16 and every positive one_epoch, the train step is        *)
(* followed by all four periodic actions: 'latest_net' with clock 0, the   *)
(* image snapshot, a validation pass with one log record for step 0 and    *)
(* epoch 0, and the epoch checkpoint net_0_epoch.                          *)
C18_FirstIterationFiresAll ==
    (/\ ~run.loaded
     /\ save_steps >= 16
     /\ one_epoch >= 1
     /\ step = 0
     /\ run.trains = 1
     /\ pc \in {"step_incr", "crashed"})
        => /\ pc = "step_incr"
           /\ iter.latest = 1
           /\ LatestNet \in DOMAIN files
           /\ iter.image = 1
           /\ 0 \in images
           /\ Len(val_log) = iter.log0 + 1
           /\ val_log[Len(val_log)].step = 0
           /\ val_log[Len(val_log)].epoch = 0
           /\ iter.epoch = 1
           /\ EpochNet(0) \in DOMAIN files
           /\ files[EpochNet(0)].clock_net = 0

(* C19: every train step runs in training mode and every evaluation step   *)
(* in evaluation mode; a validation pass switches to evaluation mode and   *)
(* leaves it there, and the next iteration switches back to training mode  *)
(* before its train step.                                                  *)
C19_ModeOfEveryStep ==
    /\ []((pc \in {"next_batch", "inf_batch"}) => net_training)
    /\ []((pc = "val_loop") => ~net_training)
    /\ []((pc \in {"save_epoch", "step_incr", "while"} /\ run.trains >= 1
              /\ Len(val_log) = iter.log0 + 1)
            => ~net_training)
    /\ [][ /\ (pc = "val_test" /\ pc' = "val_loop") => ~net_training'
           /\ (pc = "val_loop" /\ pc' # "off") => ~net_training'
           /\ (pc = "net_train" /\ pc' # "off") => net_training'
           /\ (net_training' # net_training)
                => (pc \in {"val_test", "net_train"} \/ pc' = "off") ]_vars

(* the train step that follows a validation pass, in training mode *)
C19_Witness ==
    /\ pc = "inf_batch"
    /\ runs = 1
    /\ step = 1
    /\ Len(val_log) = 1
    /\ net_training
====
